---- MODULE Spec2Model ----
(***************************************************************************)
(* Model of github.com/workspace-9/ik: push iterators (iter.Seq) and the   *)
(* combinators built on them.                                              *)
(*                                                                         *)
(* A constructed sequence is a chain of combinator stages over a source.   *)
(* chain[1] wraps the source, chain[Len(chain)] is the outermost stage,    *)
(* whose yield is the consumer (sink).  One drive is the nest of calls     *)
(*   stage L body .. stage 1 body, source loop, stage 1 rest .. stage L    *)
(* and every element the source yields runs the nest of closures           *)
(* chain[1] .. chain[L] and then the sink, the answers travelling back.    *)
(***************************************************************************)
EXTENDS Integers, Sequences, FiniteSets, TLC

\* ------------------------------------------------------------------ bounds
MaxLen == 3      \* longest source
MaxVal == 3      \* source elements are 1..MaxVal
MaxArg == 2      \* largest n of Take/Skip and largest chunkSize
MaxDepth == 2    \* longest chain of combinators
ChainLen == 3    \* longest source under a chain of several combinators

VARIABLES
    srcKind,   \* "values": slices.Values over a slice; "json": Json over a reader
    src,       \* the slice, or the decoder's results <<tok, err>> before io.EOF
    chain,     \* the combinator stages, innermost first: [kind, arg]
    sink,      \* the consumer: [kind, b]
    st,        \* the locals of each stage's drive
    cons,      \* the consumer's locals and the log of what it was given
    pos,       \* elements the source has produced in this drive
    pc,        \* "built", "enter", "src", "leave", "done", "panic"
    lvl,       \* the stage whose body runs (0: the source)
    srcDrives, \* times the source function was invoked
    closed,    \* times the reader was closed
    stopPos,   \* pos when the consumer first returned false (-1: it has not)
    ret,       \* what the terminal operation returned
    calls,     \* drives that have returned before this one
    first,     \* what the first of them was given and returned
    buildPulls \* elements pulled from the source while the sequence was constructed

vars == <<srcKind, src, chain, sink, st, cons, pos, pc, lvl, srcDrives, closed,
          stopPos, ret, calls, first, buildPulls>>

\* What only construction and the calls after the first change.
aux == <<calls, first, buildPulls>>

\* ------------------------------------------------------------------ helpers
RECURSIVE SeqsUpTo(_, _)
SeqsUpTo(S, n) ==
    IF n = 0 THEN {<<>>}
    ELSE LET shorter == SeqsUpTo(S, n - 1)
         IN  shorter \cup {Append(s, x) : s \in {q \in shorter : Len(q) = n - 1}, x \in S}

Min2(a, b) == IF a < b THEN a ELSE b
Max2(a, b) == IF a > b THEN a ELSE b

\* ------------------------------------------------------------------ caller-supplied functions
\* func(i int) bool { return i&0x1 == 0 }
isEven(i) == i % 2 = 0
\* func(i int) int { return i * i }
square(i) == i * i

\* ------------------------------------------------------------------ closures
\* What a stage's closure does with one element: it calls its yield with y,
\* returns ans without calling it, or panics.
Yield(l, y) == [loc |-> l, act |-> "yield", y |-> y, ans |-> TRUE]
Return(l, b) == [loc |-> l, act |-> "return", y |-> 0, ans |-> b]
Panic(l) == [loc |-> l, act |-> "panic", y |-> 0, ans |-> FALSE]
\* What it does with its yield's answer r.
Answer(l, r) == [loc |-> l, ans |-> r]

\* The locals a drive of a stage creates.
NewLocals(stage) ==
    [i |-> 0, idx |-> 0, m |-> {},
     chunk |-> IF stage.kind = "Chunk" THEN [k \in 1..stage.arg |-> 0] ELSE <<>>,
     cont |-> FALSE, continue1 |-> TRUE, continue2 |-> TRUE, side |-> <<>>]

\* Locals that survive from the drive before.
KeptLocals(stage, old) == old
\* The locals stage's func(yield) starts with: they are declared inside it.
EnterLocals(stage, old) == NewLocals(stage)

Map(l, t) == Yield(l, square(t))

\* Filter that stops the source at the first element it rejects.
FilterStops(l, t) == IF isEven(t) THEN Yield(l, t) ELSE Return(l, FALSE)
Filter(l, t) == IF isEven(t) THEN Yield(l, t) ELSE Return(l, TRUE)

\* Take that stops one element early.
TakeBelow(l, n, t) ==
    LET i == l.i + 1
    IN  IF i < n THEN Yield([l EXCEPT !.i = i], t)
        ELSE Return([l EXCEPT !.i = i], FALSE)
Take(l, n, t) ==
    LET i == l.i + 1
    IN  IF i <= n THEN Yield([l EXCEPT !.i = i], t)
        ELSE Return([l EXCEPT !.i = i], FALSE)

\* Skip that swallows one element more.
SkipOneMore(l, n, t) ==
    IF l.i <= n THEN Return([l EXCEPT !.i = @ + 1], TRUE)
    ELSE Yield(l, t)
Skip(l, n, t) ==
    IF l.i < n THEN Return([l EXCEPT !.i = @ + 1], TRUE)
    ELSE Yield(l, t)

\* Unique that never records what it has seen.
UniqueForgets(l, t) == IF t \notin l.m THEN Yield(l, t) ELSE Return(l, TRUE)
Unique(l, t) ==
    IF t \notin l.m THEN Yield([l EXCEPT !.m = @ \cup {t}], t)
    ELSE Return(l, TRUE)

\* Chunk that starts every chunk on a zeroed buffer of its own.
ChunkClears(l, chunkSize, t) ==
    LET chunk == [l.chunk EXCEPT ![l.idx + 1] = t]
        idx == l.idx + 1
    IN  IF idx = chunkSize
        THEN Yield([l EXCEPT !.chunk = [j \in 1..chunkSize |-> 0], !.idx = 0], chunk)
        ELSE Return([l EXCEPT !.chunk = chunk, !.idx = idx], TRUE)
\* chunk[idx] = t; idx++; a full chunk is yielded and idx goes back to 0.
Chunk(l, chunkSize, t) ==
    LET chunk == [l.chunk EXCEPT ![l.idx + 1] = t]
        idx == l.idx + 1
    IN  IF idx = chunkSize
        THEN Yield([l EXCEPT !.chunk = chunk, !.idx = 0], chunk)
        ELSE Return([l EXCEPT !.chunk = chunk, !.idx = idx], TRUE)

\* Chunk that answers continue whatever its yield answered.
ChunkRetTrue(l, r) == Answer(l, TRUE)
\* return yield(chunk)
ChunkRet(l, r) == Answer(l, r)

\* Chunk that yields the whole buffer for the partial chunk.
ChunkRestWhole(l) == IF l.idx # 0 THEN <<l.chunk>> ELSE <<>>
\* After s returns: the partial chunk, when there is one.
ChunkRest(l) == IF l.idx # 0 THEN <<SubSeq(l.chunk, 1, l.idx)>> ELSE <<>>

Enumerate(l, t) == Yield(l, <<l.idx, t>>)
\* Enumerate that answers continue whatever its yield answered.
EnumerateRetTrue(l, r) == Answer([l EXCEPT !.idx = @ + 1], TRUE)
EnumerateRet(l, r) == Answer([l EXCEPT !.idx = @ + 1], r)

Elide(l, p) == IF p[2] # "nil" THEN Panic(l) ELSE Yield(l, p[1])

Seq2Seq(l, p) == Yield(l, [K |-> p[1], V |-> p[2]])

\* Until that skips the element its predicate rejects and goes on.
UntilGoesOn(l, t) == IF isEven(t) THEN Yield(l, t) ELSE Return(l, TRUE)
Until(l, t) == IF isEven(t) THEN Yield(l, t) ELSE Return(l, FALSE)

\* Prepend hands its own yield to s.
PrependYield(l, t) == Yield(l, t)
\* Prepend that drives s whatever the answer to t was.
PrependCallsSAlways(ans) == TRUE
\* if !yield(t) { return }; s(yield): whether s is called after the answer to t.
PrependCallsS(ans) == ans

AppendYield(l, t) == Yield(l, t)
AppendRet(l, r) == Answer([l EXCEPT !.cont = r], r)
\* Append that yields t whatever the last answer was.
AppendRestAlways(l, t) == <<t>>
\* After s returns: t, when the last answer was to continue.
AppendRest(l, t) == IF l.cont THEN <<t>> ELSE <<>>

\* The side consumer of Tee returns false on its a-th call.
yield1(side, a) == Len(side) < a

\* Tee that stops the source as soon as either consumer has stopped.
TeeContinueBoth(continue1, continue2) == continue1 /\ continue2
TeeContinue(continue1, continue2) == continue1 \/ continue2

Tee(l, a, t) ==
    LET side == Append(l.side, t)
        l1 == IF l.continue1
              THEN [l EXCEPT !.side = side, !.continue1 = yield1(side, a)]
              ELSE l
    IN  IF l1.continue2 THEN Yield(l1, t)
        ELSE Return(l1, TeeContinue(l1.continue1, l1.continue2))
TeeRet(l, r) ==
    [loc |-> [l EXCEPT !.continue2 = r], ans |-> TeeContinue(l.continue1, r)]

Closure(stage, l, t) ==
    CASE stage.kind = "Map" -> Map(l, t)
      [] stage.kind = "Filter" -> Filter(l, t)
      [] stage.kind = "Take" -> Take(l, stage.arg, t)
      [] stage.kind = "Skip" -> Skip(l, stage.arg, t)
      [] stage.kind = "Unique" -> Unique(l, t)
      [] stage.kind = "Chunk" -> Chunk(l, stage.arg, t)
      [] stage.kind = "Enumerate" -> Enumerate(l, t)
      [] stage.kind = "Elide" -> Elide(l, t)
      [] stage.kind = "Seq2Seq" -> Seq2Seq(l, t)
      [] stage.kind = "Until" -> Until(l, t)
      [] stage.kind = "Prepend" -> PrependYield(l, t)
      [] stage.kind = "Append" -> AppendYield(l, t)
      [] stage.kind = "Tee" -> Tee(l, stage.arg, t)

ClosureRet(stage, l, r) ==
    CASE stage.kind = "Enumerate" -> EnumerateRet(l, r)
      [] stage.kind = "Chunk" -> ChunkRet(l, r)
      [] stage.kind = "Append" -> AppendRet(l, r)
      [] stage.kind = "Tee" -> TeeRet(l, r)
      [] OTHER -> Answer(l, r)

\* ------------------------------------------------------------------ consumers
NewCons ==
    [out |-> <<>>, stopCalls |-> 0, init |-> <<>>, t |-> 0, ok |-> FALSE,
     lastV |-> [v |-> 0, ok |-> FALSE, sign |-> 0, signOk |-> FALSE],
     returned |-> FALSE, result |-> 0]

\* The body of a range loop that breaks in its b-th iteration (b = 0: never).
LoopBody(c, b) == [c |-> c, ans |-> b = 0 \/ Len(c.out) < b]

\* The body of main's loop over Sql: scan(&x) and panic(err) when it fails.
ScanBody(c, scan) == [c |-> c, ans |-> TRUE, panicked |-> scan[2] # "nil"]

\* Reduce with Collect's func: init = append(init, x); the loop never breaks.
Collect(c, x) == [c |-> [c EXCEPT !.init = Append(@, x)], ans |-> TRUE]

Max(c, iterT) ==
    [c |-> IF ~c.ok \/ c.t > iterT THEN [c EXCEPT !.ok = TRUE, !.t = iterT] ELSE c,
     ans |-> TRUE]

Min(c, iterT) ==
    [c |-> IF ~c.ok \/ c.t < iterT THEN [c EXCEPT !.ok = TRUE, !.t = iterT] ELSE c,
     ans |-> TRUE]

\* Compare with its arguments exchanged.
CompareSwapped(a, b) == IF b < a THEN -1 ELSE IF b > a THEN 1 ELSE 0
\* First that goes on scanning after a match.
FirstGoesOn(c, iterT) ==
    [c |-> IF isEven(iterT) THEN [c EXCEPT !.ok = TRUE, !.t = iterT] ELSE c,
     ans |-> TRUE]
\* First with main's predicate.
First(c, iterT) ==
    IF isEven(iterT)
    THEN [c |-> [c EXCEPT !.ok = TRUE, !.t = iterT], ans |-> FALSE]
    ELSE [c |-> c, ans |-> TRUE]

\* cmp.Compare
Compare(a, b) == IF a < b THEN -1 ELSE IF a > b THEN 1 ELSE 0

\* func(a, b int) int of main: 1 for a < b, 0 for a == b, else -1.
descending(a, b) == IF a < b THEN 1 ELSE IF a = b THEN 0 ELSE -1
\* A three-way comparator whose results are not only -1, 0 and 1.
difference(a, b) == a - b

\* The order IsSortedBy is called with: IsSorted passes cmp.Compare.
order(a, b) ==
    IF sink.kind = "IsSorted" THEN Compare(a, b)
    ELSE IF sink.b = 1 THEN descending(a, b)
    ELSE difference(a, b)

\* The loop body of IsSortedBy.
IsSortedBy(c, v) ==
    LET lastV == c.lastV
        loopEnd(lv) == [lv EXCEPT !.v = v, !.ok = TRUE]
    IN  IF ~lastV.ok
        THEN [c |-> [c EXCEPT !.lastV = loopEnd(lastV)], ans |-> TRUE]
        ELSE IF ~lastV.signOk
        THEN [c |-> [c EXCEPT !.lastV = loopEnd([lastV EXCEPT !.signOk = TRUE,
                                                 !.sign = order(v, lastV.v)])],
              ans |-> TRUE]
        ELSE IF order(v, lastV.v) # lastV.sign
        THEN [c |-> [c EXCEPT !.returned = TRUE, !.result = 0], ans |-> FALSE]
        ELSE [c |-> [c EXCEPT !.lastV = loopEnd(lastV)], ans |-> TRUE]

\* What IsSortedBy returns when the loop was not left by return 0.
IsSortedByEnd(c) ==
    IF c.returned THEN c.result
    ELSE IF ~c.lastV.signOk THEN 1 ELSE c.lastV.sign

\* One call of the consumer with x.
Consume(x, c) ==
    LET c1 == [c EXCEPT !.out = Append(@, x)]
        r == CASE sink.kind = "loop" -> LoopBody(c1, sink.b)
               [] sink.kind = "scan" -> ScanBody(c1, x)
               [] sink.kind = "Collect" -> Collect(c1, x)
               [] sink.kind = "Max" -> Max(c1, x)
               [] sink.kind = "Min" -> Min(c1, x)
               [] sink.kind = "First" -> First(c1, x)
               [] sink.kind \in {"IsSorted", "IsSortedBy"} -> IsSortedBy(c1, x)
    IN  [c |-> IF ~r.ans /\ r.c.stopCalls = 0
               THEN [r.c EXCEPT !.stopCalls = Len(r.c.out)] ELSE r.c,
         ans |-> r.ans,
         panicked |-> sink.kind = "scan" /\ r.panicked]

\* What the terminal operation returns.
Result(c) ==
    CASE sink.kind = "Collect" -> <<c.init>>
      [] sink.kind = "Max" -> <<c.t, c.ok>>
      [] sink.kind = "Min" -> <<c.t, c.ok>>
      [] sink.kind = "First" -> <<c.t, c.ok>>
      [] sink.kind \in {"IsSorted", "IsSortedBy"} -> <<IsSortedByEnd(c)>>
      [] OTHER -> <<>>

\* ------------------------------------------------------------------ the nest of closures
\* Stage j's closure is called with x: the stages j..Len(chain), then the sink.
RECURSIVE Push(_, _, _, _)
Push(j, x, s, c) ==
    IF j > Len(chain)
    THEN LET r == Consume(x, c)
         IN  [ans |-> r.ans /\ ~r.panicked, panicked |-> r.panicked, st |-> s, c |-> r.c]
    ELSE LET p == Closure(chain[j], s[j], x)
             s1 == [s EXCEPT ![j] = p.loc]
         IN  IF p.act = "panic"
             THEN [ans |-> FALSE, panicked |-> TRUE, st |-> s1, c |-> c]
             ELSE IF p.act = "return"
             THEN [ans |-> p.ans, panicked |-> FALSE, st |-> s1, c |-> c]
             ELSE LET r == Push(j + 1, p.y, s1, c)
                      q == ClosureRet(chain[j], r.st[j], r.ans)
                  IN  IF r.panicked THEN r
                      ELSE [ans |-> q.ans, panicked |-> FALSE,
                            st |-> [r.st EXCEPT ![j] = q.loc], c |-> r.c]

\* The pos a first false answer of the consumer is recorded with.
StopPos(c, p) == IF cons.stopCalls = 0 /\ c.stopCalls # 0 THEN p ELSE stopPos

\* ------------------------------------------------------------------ values
Vals == 1..MaxVal
\* dec.Token(): a token and a nil error, or no token and an error.
Tokens == {<<v, "nil">> : v \in 1..2} \cup {<<0, "err">>}

\* The value Prepend and Append add to a sequence of elements of type ty.
Pad(ty, v) ==
    CASE ty = "chunk" -> <<v>>
      [] ty = "pairKV" -> [K |-> 0, V |-> v]
      [] ty = "pairTE" -> [K |-> v, V |-> "nil"]
      [] ty = "scan" -> <<v, "nil">>
      [] OTHER -> v

\* The element type a stage yields for an input of type ty ("bad": no such
\* instantiation in this model).  "kv" and "tokerr" are the two-value
\* sequences (iter.Seq2), "pairKV" and "pairTE" the Pairs made of them.
StageOut(kind, ty) ==
    CASE kind \in {"Map", "Filter", "Until"} -> IF ty = "int" THEN "int" ELSE "bad"
      [] kind = "Unique" -> IF ty \in {"int", "pairKV", "pairTE"} THEN ty ELSE "bad"
      [] kind \in {"Take", "Skip", "Prepend", "Append", "Tee"} ->
            IF ty \in {"int", "pairKV", "pairTE", "chunk", "scan"} THEN ty ELSE "bad"
      [] kind = "Chunk" -> IF ty \in {"int", "pairKV", "pairTE"} THEN "chunk" ELSE "bad"
      [] kind = "Enumerate" -> IF ty = "int" THEN "kv" ELSE "bad"
      [] kind = "Seq2Seq" -> IF ty = "kv" THEN "pairKV"
                             ELSE IF ty = "tokerr" THEN "pairTE" ELSE "bad"
      [] kind = "Elide" -> IF ty = "tokerr" THEN "int" ELSE "bad"
      [] kind \in {"Sorted", "SortedBy"} -> IF ty = "int" THEN "int" ELSE "bad"

RECURSIVE TypeAt(_, _, _)
\* The element type after the first j stages of ch over a source of type ty.
TypeAt(ch, j, ty) ==
    IF j = 0 THEN ty
    ELSE LET below == TypeAt(ch, j - 1, ty)
         IN  IF below = "bad" THEN "bad" ELSE StageOut(ch[j].kind, below)

SrcType ==
    CASE srcKind \in {"json", "csv"} -> "tokerr"
      [] srcKind = "sql" -> "scan"
      [] OTHER -> "int"

\* The sources that own a resource: Sql its rows, Csv and Json their reader.
Resource == srcKind \in {"sql", "csv", "json"}
\* A Close written after the loop, which runs only when the function returns.
CloseAtEnd(returns, panics) == returns
\* defer rows.Close(), defer r.Close(): whether Close runs, given that the
\* source function returns or that a panic unwinds it.
DeferClose(returns, panics) == returns \/ panics

\* ------------------------------------------------------------------ actions
\* The consumer invokes the constructed sequence.
Drive ==
    /\ UNCHANGED aux
    /\ pc = "built"
    /\ pc' = "enter"
    /\ lvl' = Len(chain)
    /\ UNCHANGED <<srcKind, src, chain, sink, st, cons, pos, srcDrives, closed,
                   stopPos, ret>>

\* The body of stage lvl, up to and including its call of s.  Prepend yields t
\* first and returns without calling s when the answer is false.
Enter ==
    /\ UNCHANGED aux
    /\ pc = "enter"
    /\ lvl >= 1
    /\ LET stage == chain[lvl]
           s0 == [st EXCEPT ![lvl] = EnterLocals(stage, st[lvl])]
       IN  IF stage.kind = "Prepend"
           THEN LET r == Push(lvl + 1, Pad(TypeAt(chain, lvl, SrcType), stage.arg), s0, cons)
                IN  /\ st' = r.st
                    /\ cons' = r.c
                    /\ stopPos' = StopPos(r.c, pos)
                    /\ IF PrependCallsS(r.ans)
                       THEN pc' = "enter" /\ lvl' = lvl - 1
                       ELSE pc' = "leave" /\ lvl' = lvl + 1
           ELSE /\ st' = s0
                /\ lvl' = lvl - 1
                /\ UNCHANGED <<cons, stopPos, pc>>
    /\ UNCHANGED <<srcKind, src, chain, sink, pos, srcDrives, closed, ret>>

\* The source function is invoked.
CallSource ==
    /\ UNCHANGED aux
    /\ pc = "enter"
    /\ lvl = 0
    /\ pc' = "src"
    /\ pos' = 0
    /\ srcDrives' = srcDrives + 1
    /\ UNCHANGED <<srcKind, src, chain, sink, st, cons, lvl, closed, stopPos, ret>>

\* What the source yields for its next item.
SourceYield(item) ==
    IF srcKind \in {"json", "csv"}
    THEN IF item[2] # "nil" THEN <<0, item[2]>> ELSE <<item[1], "nil">>
    ELSE item

\* One iteration of the source's loop: it yields the next item and returns
\* when the answer is false.  The deferred Close of a resource runs as the
\* source returns or a panic unwinds it.
Pull ==
    /\ UNCHANGED aux
    /\ pc = "src"
    /\ pos < Len(src)
    /\ LET r == Push(1, SourceYield(src[pos + 1]), st, cons)
       IN  /\ pos' = pos + 1
           /\ st' = r.st
           /\ cons' = r.c
           /\ stopPos' = StopPos(r.c, pos + 1)
           /\ pc' = IF r.panicked THEN "panic" ELSE IF r.ans THEN "src" ELSE "leave"
           /\ lvl' = IF ~r.panicked /\ ~r.ans THEN 1 ELSE lvl
           /\ closed' = IF Resource /\ DeferClose(~r.panicked /\ ~r.ans, r.panicked)
                        THEN closed + 1 ELSE closed
    /\ UNCHANGED <<srcKind, src, chain, sink, srcDrives, ret>>

\* The source has no further item: its loop ends and it returns.
Exhaust ==
    /\ UNCHANGED aux
    /\ pc = "src"
    /\ pos = Len(src)
    /\ pc' = "leave"
    /\ lvl' = 1
    /\ closed' = IF Resource /\ DeferClose(TRUE, FALSE) THEN closed + 1 ELSE closed
    /\ UNCHANGED <<srcKind, src, chain, sink, st, cons, pos, srcDrives, stopPos, ret>>

\* What stage lvl yields after its s has returned.
Rest(stage, l, ty) ==
    CASE stage.kind = "Chunk" -> ChunkRest(l)
      [] stage.kind = "Append" -> AppendRest(l, Pad(ty, stage.arg))
      [] OTHER -> <<>>

\* The body of stage lvl after its call of s has returned.
Leave ==
    /\ UNCHANGED aux
    /\ pc = "leave"
    /\ lvl <= Len(chain)
    /\ LET rest == Rest(chain[lvl], st[lvl], TypeAt(chain, lvl, SrcType))
       IN  IF rest # <<>>
           THEN LET r == Push(lvl + 1, rest[1], st, cons)
                IN  /\ st' = r.st
                    /\ cons' = r.c
                    /\ stopPos' = StopPos(r.c, pos)
           ELSE UNCHANGED <<st, cons, stopPos>>
    /\ lvl' = lvl + 1
    /\ UNCHANGED <<srcKind, src, chain, sink, pos, pc, srcDrives, closed, ret>>

\* The drive returns to the consumer.
Finish ==
    /\ UNCHANGED aux
    /\ pc = "leave"
    /\ lvl = Len(chain) + 1
    /\ pc' = "done"
    /\ ret' = Result(cons)
    /\ UNCHANGED <<srcKind, src, chain, sink, st, cons, pos, lvl, srcDrives, closed,
                   stopPos>>

\* slices.Sorted and slices.SortFunc: s in the order of a comparator.
RECURSIVE Insert(_, _, _)
Insert(x, s, desc) ==
    IF s = <<>> THEN <<x>>
    ELSE IF (IF desc THEN descending(x, s[1]) ELSE Compare(x, s[1])) < 0
    THEN <<x>> \o s
    ELSE <<s[1]>> \o Insert(x, Tail(s), desc)
RECURSIVE SortFunc(_, _)
SortFunc(s, desc) ==
    IF s = <<>> THEN <<>> ELSE Insert(s[1], SortFunc(Tail(s), desc), desc)

\* The combinator function is called: Chunk panics on a chunkSize below 1;
\* Sorted and SortedBy collect the source, sort the slice and return
\* slices.Values of it; every other combinator returns its func(yield).
Construct ==
    /\ pc = "new"
    /\ LET stage == chain[1]
       IN  IF stage.kind = "Chunk" /\ stage.arg < 1
           THEN /\ pc' = "panic"
                /\ UNCHANGED <<src, chain, st, srcDrives, buildPulls>>
           ELSE IF stage.kind \in {"Sorted", "SortedBy"}
           THEN /\ pc' = "built"
                /\ srcDrives' = srcDrives + 1
                /\ buildPulls' = Len(src)
                /\ src' = SortFunc(src, stage.kind = "SortedBy")
                /\ chain' = <<>>
                /\ st' = <<>>
           ELSE /\ pc' = "built"
                /\ UNCHANGED <<src, chain, st, srcDrives, buildPulls>>
    /\ UNCHANGED <<srcKind, sink, cons, pos, lvl, closed, stopPos, ret, calls, first>>

\* What a returned drive leaves for the comparison with later ones.
Returned ==
    [sink |-> sink, out |-> cons.out, ret |-> ret, pos |-> pos,
     side |-> IF chain # <<>> THEN st[1].side ELSE <<>>]

\* After Collect(Take(S, n)) has returned, Skip(S, n) is constructed over
\* the same S for the same consumer.
ThenSkip ==
    /\ pc = "done"
    /\ calls = 0
    /\ Len(chain) = 1 /\ chain[1].kind = "Take"
    /\ chain' = <<[kind |-> "Skip", arg |-> chain[1].arg]>>
    /\ st' = <<NewLocals(chain'[1])>>
    /\ first' = Returned
    /\ calls' = 1
    /\ cons' = NewCons
    /\ pc' = "built"
    /\ lvl' = 0
    /\ pos' = 0
    /\ stopPos' = -1
    /\ ret' = <<>>
    /\ UNCHANGED <<srcKind, src, sink, srcDrives, closed, buildPulls>>

\* The constructed sequence is driven again, by a consumer snk.  Nothing of
\* the sequence is touched: its locals are those the last drive left.
DriveAgain(snk) ==
    /\ pc = "done"
    /\ sink' = snk
    /\ first' = IF calls = 0 THEN Returned ELSE first
    /\ calls' = calls + 1
    /\ cons' = NewCons
    /\ pc' = "enter"
    /\ lvl' = Len(chain)
    /\ stopPos' = -1
    /\ ret' = <<>>
    /\ UNCHANGED <<srcKind, src, chain, st, pos, srcDrives, closed, buildPulls>>

\* ------------------------------------------------------------------ specifications
Stage(kind, arg) == [kind |-> kind, arg |-> arg]

\* A single combinator with every argument within the bounds.
OneStage ==
    {Stage(k, 0) : k \in {"Map", "Filter", "Unique", "Enumerate", "Until", "Elide", "Seq2Seq"}}
    \cup {Stage("Take", n) : n \in (-1)..MaxArg}
    \cup {Stage("Skip", n) : n \in 0..MaxArg}
    \cup {Stage("Chunk", n) : n \in 1..MaxArg}
    \cup {Stage(k, v) : k \in {"Prepend", "Append"}, v \in Vals}
    \cup {Stage("Tee", a) : a \in 1..(MaxLen + 1)}

Built(kind, s, ch, snk) ==
    /\ srcKind = kind
    /\ src = s
    /\ chain = ch
    /\ sink = snk
    /\ st = [j \in 1..Len(ch) |-> NewLocals(ch[j])]
    /\ cons = NewCons
    /\ pos = 0
    /\ pc = "built"
    /\ lvl = 0
    /\ srcDrives = 0
    /\ closed = 0
    /\ stopPos = -1
    /\ ret = <<>>
    /\ calls = 0
    /\ first = <<>>
    /\ buildPulls = 0

Loops(n) == {[kind |-> "loop", b |-> b] : b \in 0..n}

\* One combinator over a slice or a reader, consumed by a range loop.
InitOne ==
    \E stage \in OneStage, b \in Loops(MaxLen + 2) :
        \/ /\ StageOut(stage.kind, "int") # "bad"
           /\ \E s \in SeqsUpTo(Vals, MaxLen) : Built("values", s, <<stage>>, b)
        \/ /\ StageOut(stage.kind, "tokerr") # "bad"
           /\ \E s \in SeqsUpTo(Tokens, MaxLen) : Built("json", s, <<stage>>, b)

Next == Drive \/ Enter \/ CallSource \/ Pull \/ Exhaust \/ Leave \/ Finish

Spec == InitOne /\ [][Next]_vars

\* ------------------------------------------------------------------ single combinators
One(kind) == Len(chain) = 1 /\ chain[1].kind = kind
out == cons.out
\* The consumer never requests stop.
NeverStops == sink.kind = "loop" /\ sink.b = 0
\* The consumer has returned false.
Stopped == cons.stopCalls # 0

RECURSIVE Flatten(_)
Flatten(chunks) ==
    IF chunks = <<>> THEN <<>> ELSE Head(chunks) \o Flatten(Tail(chunks))

\* C1: Tee over a source of N elements, side consumer stopping on its a-th
\* call, downstream consumer on its b-th: neither consumer is called after it
\* returned false, and the finished drive has pulled min(max(a, b), N)
\* elements, called the side consumer min(a, N) times and the downstream
\* consumer min(b, N) times.
C1_TeeCounts ==
    (One("Tee") /\ sink.b >= 1) =>
        LET a == chain[1].arg
            b == sink.b
            N == Len(src)
        IN  /\ Len(st[1].side) <= a
            /\ Len(out) <= b
            /\ pc = "done" =>
                  /\ pos = Min2(Max2(a, b), N)
                  /\ Len(st[1].side) = Min2(a, N)
                  /\ Len(out) = Min2(b, N)
C1_Witness ==
    /\ One("Tee") /\ pc = "done"
    /\ chain[1].arg = 2 /\ sink.b = 1 /\ Len(src) = 3
    /\ pos = 2 /\ Len(st[1].side) = 2 /\ Len(out) = 1

\* C2: Append(v, S) driven by a consumer that never requests stop delivers
\* the elements of S in order and then v once, for every S, the empty one
\* included.
C2_AppendAll ==
    (One("Append") /\ NeverStops /\ pc = "done") => out = Append(src, chain[1].arg)

\* C3: Append(v, S) whose consumer returns false on the b-th element of S
\* (b <= |S|): the consumer is given the first b elements of S and nothing
\* more, so v is never delivered.
C3_AppendStop ==
    (One("Append") /\ sink.b \in 1..Len(src)) =>
        /\ Len(out) <= sink.b
        /\ out = SubSeq(src, 1, Len(out))
        /\ pc = "done" => Len(out) = sink.b /\ pos = sink.b
C3_Witness ==
    /\ One("Append") /\ pc = "done" /\ Stopped
    /\ sink.b = Len(src) /\ Len(src) = 2 /\ out = src

\* C4: Prepend(v, S): v is the first element delivered; S is not driven and
\* no element is pulled before the consumer has answered v; on false for v S
\* is never driven; otherwise the elements of S follow in order and the
\* consumer's false stops the source at that element.
C4_Prepend ==
    One("Prepend") =>
        LET v == chain[1].arg
            b == sink.b
        IN  /\ Len(out) >= 1 => out[1] = v
            /\ (srcDrives > 0 \/ pos > 0) => Len(out) >= 1 /\ b # 1
            /\ b = 1 => srcDrives = 0 /\ pos = 0 /\ Len(out) <= 1
            /\ srcDrives > 0 => out = <<v>> \o SubSeq(src, 1, pos)
            /\ b >= 1 => Len(out) <= b
            /\ pc = "done" =>
                  /\ Len(out) >= 1
                  /\ pos = IF b = 0 THEN Len(src) ELSE Min2(b - 1, Len(src))
C4_Witness ==
    /\ One("Prepend") /\ pc = "done"
    /\ sink.b = 1 /\ Len(src) = 2 /\ srcDrives = 0 /\ out = <<chain[1].arg>>

\* C5: Chunk(S, k) driven by a consumer that never requests stop yields
\* ceil(|S| / k) chunks, all of length k but the last, which has length
\* |S| mod k (k when that is 0), and the chunks, each read when it is
\* yielded, concatenate to S.
C5_ChunkAll ==
    (One("Chunk") /\ NeverStops /\ pc = "done") =>
        LET k == chain[1].arg
            L == Len(src)
            n == Len(out)
        IN  /\ n = (L + k - 1) \div k
            /\ \A i \in 1..(n - 1) : Len(out[i]) = k
            /\ n > 0 => Len(out[n]) = (IF L % k = 0 THEN k ELSE L % k)
            /\ Flatten(out) = src
C5_Witness ==
    /\ One("Chunk") /\ NeverStops /\ pc = "done"
    /\ chain[1].arg = 2 /\ Len(src) = 3 /\ Len(out) = 2 /\ Len(out[2]) = 1

\* C6: Chunk whose consumer returns false on a chunk pulls no further element
\* and never calls the consumer again: no partial chunk follows the stop.
C6_ChunkStop ==
    (One("Chunk") /\ Stopped) =>
        /\ Len(out) = cons.stopCalls
        /\ pos = stopPos
C6_Witness ==
    /\ One("Chunk") /\ Stopped /\ pc = "done"
    /\ chain[1].arg = 2 /\ Len(src) = 3 /\ pos = 2 /\ Len(out) = 1

\* What a consumer that kept the slice of the i-th yield reads in it now:
\* yield(chunk) and yield(chunk[:idx]) both hand out the array of make.
Retained(i) == SubSeq(st[1].chunk, 1, Len(out[i]))

\* C19 as stated: a retained full chunk is overwritten by the next full
\* chunk, and a final partial chunk leaves the full chunk before it unchanged.
C19_ChunkAsStated ==
    (One("Chunk") /\ NeverStops /\ pc = "done" /\ Len(out) >= 2) =>
        LET n == Len(out)
        IN  IF Len(out[n]) = chain[1].arg
            THEN Retained(n - 1) = out[n]
            ELSE Retained(n - 1) = out[n - 1]
\* C19: all chunks of one drive, the final partial chunk included, are views
\* of one backing array: after the drive every retained full chunk reads as
\* the last full chunk with its first m elements overwritten by the final
\* partial chunk of length m (m = 0 when there is none), and the partial
\* chunk reads as yielded.
C19_ChunkStorage ==
    (One("Chunk") /\ NeverStops /\ pc = "done") =>
        LET n == Len(out)
            k == chain[1].arg
        IN  \A i \in 1..n :
                Retained(i) =
                    IF i = n \/ Len(out[n]) = k THEN out[n]
                    ELSE out[n] \o SubSeq(out[n - 1], Len(out[n]) + 1, k)
C19_Witness ==
    /\ One("Chunk") /\ NeverStops /\ pc = "done"
    /\ chain[1].arg = 2 /\ Len(src) = 3 /\ Len(out) = 2
    /\ out[1] = <<1, 2>> /\ Retained(1) = <<3, 2>>

\* The longest prefix of s whose elements all satisfy isEven.
RECURSIVE WhileEven(_)
WhileEven(s) ==
    IF s = <<>> \/ ~isEven(Head(s)) THEN <<>> ELSE <<Head(s)>> \o WhileEven(Tail(s))
\* The prefix of s up to and including its first element satisfying isEven.
RECURSIVE ThroughEven(_)
ThroughEven(s) ==
    IF s = <<>> THEN <<>>
    ELSE IF isEven(Head(s)) THEN <<Head(s)>>
    ELSE <<Head(s)>> \o ThroughEven(Tail(s))

\* C10 as stated: Until(S, p) forwards the elements on which p is false and
\* the first one on which p is true, and then stops the source.
C10_UntilAsStated ==
    (One("Until") /\ NeverStops /\ pc = "done") =>
        /\ out = ThroughEven(src)
        /\ pos = Len(ThroughEven(src))

\* C10 amended: Until(S, p) forwards each element on which p is true, in
\* order, with the consumer's answer returned to the source; on the first
\* element on which p is false it requests stop without forwarding it; no
\* later element is pulled or forwarded.
C10_UntilWhile ==
    One("Until") =>
        LET w == WhileEven(src)
            b == sink.b
        IN  /\ Len(out) <= Len(w)
            /\ out = SubSeq(w, 1, Len(out))
            /\ b >= 1 => Len(out) <= b
            /\ pc = "done" =>
                  IF b >= 1 /\ b <= Len(w)
                  THEN Len(out) = b /\ pos = b
                  ELSE out = w /\ pos = Min2(Len(w) + 1, Len(src))
C10_Witness ==
    /\ One("Until") /\ NeverStops /\ pc = "done"
    /\ src = <<2, 1, 2>> /\ out = <<2>> /\ pos = 2

\* ------------------------------------------------------------------ Take, Filter, Unique
\* C11: Take(S, n) driven by a consumer that never requests stop forwards the
\* first min(max(n, 0), |S|) elements of S in order and pulls
\* min(max(n, 0) + 1, |S|) elements: the element after the n-th is pulled and
\* answered with stop, never forwarded.
C11_Take ==
    (One("Take") /\ NeverStops) =>
        LET n == Max2(chain[1].arg, 0)
        IN  /\ Len(out) <= Min2(n, pos)
            /\ out = SubSeq(src, 1, Len(out))
            /\ pc = "done" =>
                  /\ Len(out) = Min2(n, Len(src))
                  /\ pos = Min2(n + 1, Len(src))
C11_Witness ==
    /\ One("Take") /\ NeverStops /\ pc = "done"
    /\ chain[1].arg = 1 /\ Len(src) = 3 /\ pos = 2 /\ out = <<src[1]>>

\* The elements of s that satisfy isEven, in order.
Evens(s) == SelectSeq(s, isEven)

\* C14: Filter(S, p) gives the consumer exactly the elements of S satisfying
\* p, in order; a rejected element is answered with continue, so the source
\* is stopped before its end only by the consumer's false.
C14_Filter ==
    One("Filter") =>
        /\ out = Evens(SubSeq(src, 1, pos))
        /\ (pc \in {"leave", "done"} /\ pos < Len(src)) =>
              Stopped /\ out[Len(out)] = src[pos]
        /\ (pc = "done" /\ NeverStops) => out = Evens(src) /\ pos = Len(src)
C14_Witness ==
    /\ One("Filter") /\ NeverStops /\ pc = "done"
    /\ src = <<1, 2, 3>> /\ out = <<2>> /\ pos = 3

\* ------------------------------------------------------------------ chains
\* A stage of a chain: every combinator that forwards its consumer's answer.
ChainStage ==
    {Stage(k, 0) : k \in {"Map", "Filter", "Unique", "Enumerate", "Until", "Elide", "Seq2Seq"}}
    \cup {Stage(k, 1) : k \in {"Take", "Skip", "Prepend", "Append"}}
    \cup {Stage("Chunk", 2)}

\* The chains of 1..n stages.
RECURSIVE Chains(_)
Chains(n) ==
    IF n = 0 THEN {<<>>}
    ELSE LET shorter == Chains(n - 1)
         IN  shorter \cup {Append(ch, stage) : ch \in {q \in shorter : Len(q) = n - 1},
                                               stage \in ChainStage}

InitChain ==
    \E ch \in Chains(MaxDepth) \ {<<>>}, b \in Loops(ChainLen + 1) :
        \/ /\ TypeAt(ch, Len(ch), "int") # "bad"
           /\ \E s \in SeqsUpTo(1..2, ChainLen) : Built("values", s, ch, b)
        \/ /\ TypeAt(ch, Len(ch), "tokerr") # "bad"
           /\ \E s \in SeqsUpTo(Tokens, ChainLen) : Built("json", s, ch, b)

SpecChain == InitChain /\ [][Next]_vars

\* C7: in a chain of Map, Filter, Take, Skip, Unique, Enumerate, Chunk,
\* Prepend, Append, Until, Elide and Seq2Seq over a source that stops on
\* false, once the consumer has returned false it is not called again and no
\* further element is pulled from the source.
C7_StopProtocol ==
    Stopped =>
        /\ Len(out) = cons.stopCalls
        /\ pos = stopPos
C7_Witness ==
    /\ Len(chain) = 2 /\ chain[1].kind = "Chunk" /\ chain[2].kind = "Append"
    /\ Stopped /\ pc = "done" /\ pos = 2 /\ Len(src) = 3 /\ Len(out) = 1

\* The elements of s without those that occurred earlier in s.
RECURSIVE FirstSeen(_)
FirstSeen(s) ==
    IF s = <<>> THEN <<>>
    ELSE LET front == SubSeq(s, 1, Len(s) - 1)
             last == s[Len(s)]
         IN  IF \E i \in 1..Len(front) : front[i] = last
             THEN FirstSeen(front)
             ELSE Append(FirstSeen(front), last)

AllUnique == \A j \in 1..Len(chain) : chain[j].kind = "Unique"

\* C13: collecting Unique(S) gives each distinct value of S once, in the
\* order of first occurrence, and collecting Unique(Unique(S)) gives the same.
C13_Unique ==
    (AllUnique /\ NeverStops /\ pc = "done") =>
        /\ out = FirstSeen(src)
        /\ \A i \in 1..Len(src) :
              Cardinality({k \in 1..Len(out) : out[k] = src[i]}) = 1
C13_Witness ==
    /\ Len(chain) = 2 /\ AllUnique /\ NeverStops /\ pc = "done"
    /\ src = <<2, 1, 2>> /\ out = <<2, 1>>

\* ------------------------------------------------------------------ terminal operations
InitFold ==
    \E s \in SeqsUpTo(Vals, MaxLen) :
        \/ \E k \in {"Collect", "Max", "Min", "IsSorted", "First"} :
              Built("values", s, <<>>, [kind |-> k, b |-> 0])
        \/ \E b \in 1..2 : Built("values", s, <<>>, [kind |-> "IsSortedBy", b |-> b])

NextFold == Drive \/ CallSource \/ Pull \/ Exhaust \/ Finish

SpecFold == InitFold /\ [][NextFold]_vars

Ascending(s) == \A i \in 1..(Len(s) - 1) : s[i] < s[i + 1]
Descending(s) == \A i \in 1..(Len(s) - 1) : s[i] > s[i + 1]

\* C8: IsSorted returns 1 for the empty, the one-element and the strictly
\* ascending sequences, -1 for the strictly descending ones of two or more
\* elements, and 0 for all others.
C8_IsSorted ==
    (sink.kind = "IsSorted" /\ pc = "done") =>
        ret = << IF Ascending(src) THEN 1 ELSE IF Descending(src) THEN -1 ELSE 0 >>
C8_Witness ==
    /\ sink.kind = "IsSorted" /\ pc = "done"
    /\ src = <<2, 2, 2>> /\ ret = <<0>>

Least(s) == CHOOSE x \in {s[i] : i \in DOMAIN s} : \A i \in DOMAIN s : x <= s[i]
Greatest(s) == CHOOSE x \in {s[i] : i \in DOMAIN s} : \A i \in DOMAIN s : x >= s[i]

\* C9: Min returns the least and Max the greatest element of a nonempty
\* sequence, with true; on the empty sequence both return the zero value and
\* false.
C9_MinMax ==
    (sink.kind \in {"Min", "Max"} /\ pc = "done") =>
        ret = IF src = <<>> THEN <<0, FALSE>>
              ELSE IF sink.kind = "Min" THEN <<Least(src), TRUE>>
              ELSE <<Greatest(src), TRUE>>

\* The position of the first element of s satisfying isEven (0: none).
FirstEven(s) ==
    IF \E i \in 1..Len(s) : isEven(s[i])
    THEN CHOOSE i \in 1..Len(s) : isEven(s[i]) /\ \A j \in 1..(i - 1) : ~isEven(s[j])
    ELSE 0

\* C15: First(S, p) returns the earliest element of S satisfying p and true,
\* having pulled no element after it; when there is none it returns the zero
\* value and false, having pulled every element.
C15_First ==
    sink.kind = "First" =>
        LET k == FirstEven(src)
        IN  /\ k # 0 => pos <= k
            /\ pc = "done" =>
                  IF k # 0 THEN ret = <<src[k], TRUE>> /\ pos = k
                  ELSE ret = <<0, FALSE>> /\ pos = Len(src)
C15_Witness ==
    /\ sink.kind = "First" /\ pc = "done"
    /\ src = <<1, 2, 2>> /\ ret = <<2, TRUE>> /\ pos = 2

\* Every adjacent pair of s compares (new against previous) with sign sg.
AllSigns(s, sg) ==
    \A i \in 1..(Len(s) - 1) : Compare(order(s[i + 1], s[i]), 0) = sg

\* C18: IsSortedBy with a comparator returning any negative, zero or positive
\* integer returns 1, -1 or 0: 1 when every adjacent pair compares positive,
\* -1 when every pair compares negative, 0 when a pair's sign differs from
\* the first pair's.
C18_IsSortedBy ==
    (sink.kind = "IsSortedBy" /\ pc = "done") =>
        /\ ret[1] \in {1, -1, 0}
        /\ AllSigns(src, 1) => ret = <<1>>
        /\ (Len(src) >= 2 /\ AllSigns(src, -1)) => ret = <<-1>>
        /\ (\E i \in 2..(Len(src) - 1) :
                Compare(order(src[i + 1], src[i]), 0) # Compare(order(src[2], src[1]), 0))
              => ret = <<0>>

\* ------------------------------------------------------------------ Take, then Skip
\* Take(S, n) and then Skip(S, n) over the same slice, both collected or both
\* consumed by the same range loop.
InitPair ==
    \E s \in SeqsUpTo(Vals, MaxLen), n \in 0..MaxArg,
       snk \in {[kind |-> "Collect", b |-> 0]} \cup Loops(MaxLen + 1) :
        Built("values", s, <<[kind |-> "Take", arg |-> n]>>, snk)

NextPair == Drive \/ Enter \/ CallSource \/ Pull \/ Exhaust \/ Leave \/ Finish \/ ThenSkip

SpecPair == InitPair /\ [][NextPair]_vars

\* C12: Collect(Take(S, n)) followed by Collect(Skip(S, n)) is S; Skip does
\* not call the consumer for the first n elements and forwards every later
\* one, the consumer's answer going back to the source unchanged.
C12_SkipTake ==
    One("Skip") =>
        LET n == chain[1].arg
        IN  /\ out = IF pos > n THEN SubSeq(src, n + 1, pos) ELSE <<>>
            /\ Stopped => Len(out) = cons.stopCalls /\ pos = stopPos
            /\ (pc = "done" /\ ~Stopped) => pos = Len(src)
            /\ (pc = "done" /\ sink.kind = "Collect") => first.ret[1] \o ret[1] = src
C12_Witness ==
    /\ One("Skip") /\ pc = "done" /\ sink.kind = "Collect"
    /\ chain[1].arg = 1 /\ Len(src) = 3
    /\ first.ret = <<SubSeq(src, 1, 1)>> /\ ret = <<SubSeq(src, 2, 3)>>

\* ------------------------------------------------------------------ second drives
MaxDrives == 3   \* drives of one constructed sequence

\* The combinators that keep locals during a drive.
StatefulStage ==
    {Stage(k, 1) : k \in {"Take", "Skip", "Append"}}
    \cup {Stage(k, 0) : k \in {"Unique", "Enumerate"}}
    \cup {Stage("Chunk", 2)}
    \cup {Stage("Tee", a) : a \in 1..2}

InitAgain ==
    \E stage \in StatefulStage, s \in SeqsUpTo(1..2, ChainLen), snk \in Loops(ChainLen + 1) :
        Built("values", s, <<stage>>, snk)

Again == calls + 1 < MaxDrives /\ \E snk \in Loops(ChainLen + 1) : DriveAgain(snk)

NextAgain == Drive \/ Enter \/ CallSource \/ Pull \/ Exhaust \/ Leave \/ Finish \/ Again

SpecAgain == InitAgain /\ [][NextAgain]_vars

\* C20: a later drive of the same Take, Skip, Unique, Chunk, Enumerate, Append
\* or Tee value over a slice starts from fresh locals and gives its consumer,
\* and Tee's side consumer, what the first drive gave the same consumer,
\* whatever the drives in between were stopped by.
C20_DriveAgain ==
    calls >= 1 =>
        /\ (pc = "src" /\ pos = 0) => st[1] = NewLocals(chain[1])
        /\ (pc = "done" /\ sink = first.sink) =>
              /\ out = first.out
              /\ st[1].side = first.side
              /\ pos = first.pos
C20_Witness ==
    /\ calls = 2 /\ pc = "done" /\ sink = first.sink
    /\ One("Chunk") /\ Len(src) = 3 /\ sink.b = 0
    /\ out = first.out /\ Len(out) = 2

\* ------------------------------------------------------------------ construction
\* A combinator about to be applied to a slice or a reader.
InitBuild ==
    \E stage \in OneStage \cup {Stage("Chunk", 0), Stage("Sorted", 0), Stage("SortedBy", 0)},
       snk \in Loops(1) :
        \E kind \in {"values", "json"} :
            /\ StageOut(stage.kind, IF kind = "json" THEN "tokerr" ELSE "int") # "bad"
            /\ \E s \in SeqsUpTo(IF kind = "json" THEN Tokens ELSE Vals, MaxLen) :
                  /\ srcKind = kind
                  /\ src = s
                  /\ chain = <<stage>>
                  /\ sink = snk
                  /\ st = <<NewLocals(stage)>>
                  /\ cons = NewCons
                  /\ pos = 0
                  /\ pc = "new"
                  /\ lvl = 0
                  /\ srcDrives = 0
                  /\ closed = 0
                  /\ stopPos = -1
                  /\ ret = <<>>
                  /\ calls = 0
                  /\ first = <<>>
                  /\ buildPulls = 0

NextBuild ==
    Construct \/ Drive \/ Enter \/ CallSource \/ Pull \/ Exhaust \/ Leave \/ Finish

SpecBuild == InitBuild /\ [][NextBuild]_vars

\* C16: constructing a combinator over a source, Sorted and SortedBy
\* included, pulls no element from the source: the source is first pulled
\* when the constructed sequence is driven.
C16_LazyConstruction ==
    pc \in {"new", "built"} => buildPulls = 0 /\ pos = 0

\* ------------------------------------------------------------------ resource adapters
\* The sinks of a sequence of elements of type ty: range loops, and for the
\* scan functions of Sql the loop of main that scans every row.
Sinks(ty) ==
    Loops(MaxLen + 1) \cup (IF ty = "scan" THEN {[kind |-> "scan", b |-> 0]} ELSE {})

\* Sql, Csv or Json, bare or under one combinator, about to be driven.
InitRes ==
    \E kind \in {"sql", "csv", "json"} :
        LET ty == IF kind = "sql" THEN "scan" ELSE "tokerr"
        IN  \E ch \in {<<>>} \cup {<<stage>> : stage \in {g \in OneStage : StageOut(g.kind, ty) # "bad"}} :
                \E snk \in Sinks(TypeAt(ch, Len(ch), ty)), s \in SeqsUpTo(Tokens, MaxLen) :
                    Built(kind, s, ch, snk)

SpecRes == InitRes /\ [][Next]_vars

\* C17: a drive of Sql, Csv or Json closes its resource exactly once, when
\* the source function is left by end of input, by a false answer or by a
\* panic during the drive, and not while the source may still call the consumer.
C17_ClosedOnce ==
    Resource =>
        /\ pc \in {"built", "enter"} => srcDrives = 0 /\ closed = 0
        /\ pc = "src" => srcDrives = 1 /\ closed = 0
        /\ pc \in {"leave", "done"} => closed = srcDrives
        /\ pc = "panic" => srcDrives = 1 /\ closed = 1
C17_Witness ==
    /\ srcKind = "csv" /\ One("Elide") /\ pc = "panic" /\ closed = 1
    /\ pos = 2 /\ Len(out) = 1

====
